---- MODULE Spec2Model ----
(***************************************************************************)
(* Stocktake of an InvenTree part catalogue (InvenTree/part/stocktake.py). *)
(*                                                                         *)
(* perform_stocktake sums the in-stock entries of one part and values them *)
(* between a minimum and a maximum cost; generate_stocktake_report filters *)
(* the part catalogue, runs perform_stocktake on every matching part,      *)
(* builds the CSV dataset, and stores the report and the per-part records. *)
(*                                                                         *)
(* The database (stock items, locations, categories, part pricing, the     *)
(* exchange rates and the two settings) is the state the two functions     *)
(* read; the for-loops of the two functions are taken one iteration per    *)
(* step, so that another actor may change a setting while a report runs.   *)
(***************************************************************************)
EXTENDS Integers, Sequences, FiniteSets

\* ------------------------------------------------------------------ bounds

\* Number of stock items in the database.
NumItems == 2
\* Largest quantity of one stock item.
MaxQty == 2

\* ---------------------------------------------------------------- fixtures

\* Part 2 is a variant of part 1; part 3 stands alone.
Parts == {1, 2, 3}

PartParent(p) == IF p = 2 THEN 1 ELSE 0

\* Category 2 is a child of category 1; category 3 stands alone.  0 is "no category".
PartCategory(p) == IF p = 1 THEN 2 ELSE IF p = 2 THEN 3 ELSE 1

CategoryParent(c) == IF c = 2 THEN 1 ELSE 0

\* Location 2 is a child of location 1 and is flagged external.  0 is "no
\* location" (a null foreign key).
Locations == {1, 2}

LocationParent(l) == IF l = 2 THEN 1 ELSE 0

LocationExternal(l) == l = 2

Currencies == {"EUR", "USD", "GBP"}

\* What one unit of a currency is worth: 1 GBP = 2 USD = 4 EUR.
ExchangeValue(c) == IF c = "GBP" THEN 4 ELSE IF c = "USD" THEN 2 ELSE 1

\* The currencies the base-currency setting takes.
BaseCurrencies == {"EUR", "USD"}

Items == 1..NumItems

\* ------------------------------------------------------------------- money

\* A Money value; NoMoney is None (a null price).
Money(a, c) == [amount |-> a, currency |-> c]

NoMoney == [amount |-> 0, currency |-> "none"]

\* Python truth of an optional Money: None and a zero amount are both false.
Truthy(m) == m.currency # "none" /\ m.amount # 0

\* Python's (a or b).
MoneyOr(a, b) == IF Truthy(a) THEN a ELSE b

\* get_rate raises MissingRate unless the currencies are equal or both have a
\* registered rate.
CanConvert(m, base, rt) ==
    m.currency = base \/ (m.currency \in rt /\ base \in rt)

\* convert_money(m, base).amount, where CanConvert.
Converted(m, base) ==
    IF m.currency = base THEN m.amount
    ELSE (m.amount * ExchangeValue(m.currency)) \div ExchangeValue(base)

VARIABLES
    items,              \* the StockItem table: item id -> row
    pricing,            \* the PartPricing table: part -> row
    rates,              \* the currencies with a registered exchange rate
    base_setting,       \* the setting behind currency_code_default()
    exclude_setting,    \* the setting STOCKTAKE_EXCLUDE_EXTERNAL
    refreshed,          \* the parts whose pricing was updated by a stocktake
    saved,              \* the PartStocktake table (rows inserted)
    reports,            \* the PartStocktakeReport table (rows inserted)
    notifications,      \* the notifications triggered
    pc,                 \* where the running call is
    kwargs,             \* the keyword arguments of generate_stocktake_report
    r,                  \* the locals of generate_stocktake_report
    s,                  \* the locals of perform_stocktake
    ret                 \* what the outermost call returned

vars == <<items, pricing, rates, base_setting, exclude_setting,
          refreshed, saved, reports, notifications, pc, kwargs, r, s, ret>>

db == <<items, rates, exclude_setting>>

\* --------------------------------------------------------------- hierarchy

RECURSIVE IsLocationWithin(_, _)
\* l is loc or one of its descendants.
IsLocationWithin(l, loc) ==
    IF l = 0 THEN FALSE
    ELSE IF l = loc THEN TRUE
    ELSE IsLocationWithin(LocationParent(l), loc)

RECURSIVE IsCategoryWithin(_, _)
IsCategoryWithin(c, cat) ==
    IF c = 0 THEN FALSE
    ELSE IF c = cat THEN TRUE
    ELSE IsCategoryWithin(CategoryParent(c), cat)

RECURSIVE IsPartWithin(_, _)
IsPartWithin(p, top) ==
    IF p = 0 THEN FALSE
    ELSE IF p = top THEN TRUE
    ELSE IsPartWithin(PartParent(p), top)

\* location.get_descendants(include_self=True)
LocationDescendants(loc) == {l \in Locations : IsLocationWithin(l, loc)}

\* A set of integers as the sequence a queryset ordered by pk yields.
RECURSIVE SortedSeq(_)
SortedSeq(S) ==
    IF S = {} THEN <<>>
    ELSE LET m == CHOOSE x \in S : \A y \in S : x <= y
         IN <<m>> \o SortedSeq(S \ {m})

\* queryset.exclude(location__external=True): a row with no location stays.
ExcludeExternal(ids) ==
    {i \in ids : ~(items[i].location # 0 /\ LocationExternal(items[i].location))}

\* target.stock_entries(in_stock=True, include_variants=False)
StockEntries(p) == {i \in Items : items[i].part = p /\ items[i].in_stock}

\* (mutation) the exclude_external option is ignored.
StocktakeEntriesUnfiltered(p, exclude_external) == StockEntries(p)

\* Lines 43-48: the stock entries perform_stocktake iterates over.
StocktakeEntries(p, exclude_external) ==
    IF exclude_external THEN ExcludeExternal(StockEntries(p)) ELSE StockEntries(p)

\* -------------------------------------------------------- perform_stocktake

NoFrame ==
    [caller |-> "none", target |-> 0, user |-> 0, commit |-> FALSE,
     exclude_external |-> FALSE, stock_entries |-> <<>>, i |-> 1,
     base_currency |-> "none", total_quantity |-> 0,
     total_cost_min |-> NoMoney, total_cost_max |-> NoMoney,
     instance |-> [part |-> 0, item_count |-> 0, quantity |-> 0,
                   cost_min |-> NoMoney, cost_max |-> NoMoney, user |-> 0]]

\* The bounds a valid pricing row holds: overall_min is worth no more than
\* overall_max.
PricingMin == {NoMoney, Money(1, "USD"), Money(1, "GBP")}

PricingMax == {NoMoney, Money(2, "USD"), Money(1, "GBP")}

InvalidPricing == [is_valid |-> FALSE, overall_min |-> NoMoney, overall_max |-> NoMoney]

\* What pricing.update_pricing(cascade=False) computes for a part.
ComputedPricing(p) ==
    [is_valid |-> TRUE, overall_min |-> Money(1, "USD"), overall_max |-> Money(2, "USD")]

ValidPricings ==
    {[is_valid |-> TRUE, overall_min |-> a, overall_max |-> b] :
        a \in PricingMin, b \in PricingMax}

\* Lines 43-63: the queryset, the pricing refresh, the base currency and the
\* zeroed accumulators.
BeginStocktake(caller, target, user, commit, exclude_external) ==
    /\ IF pricing[target].is_valid
       THEN UNCHANGED <<pricing, refreshed>>
       ELSE /\ pricing' = [pricing EXCEPT ![target] = ComputedPricing(target)]
            /\ refreshed' = refreshed \cup {target}
    /\ s' = [NoFrame EXCEPT
                !.caller = caller, !.target = target, !.user = user,
                !.commit = commit, !.exclude_external = exclude_external,
                !.stock_entries = SortedSeq(StocktakeEntries(target, exclude_external)),
                !.base_currency = base_setting,
                !.total_cost_min = Money(0, base_setting),
                !.total_cost_max = Money(0, base_setting)]
    /\ pc' = "stocktake"

\* Lines 70-93: what one entry adds to <<total_cost_min, total_cost_max>>.
EntryCost(entry, pr, base, rt) ==
    LET has_pricing ==
            Truthy(entry.purchase_price) /\ CanConvert(entry.purchase_price, base, rt)
        pp == Converted(entry.purchase_price, base) * entry.quantity
        p_min == MoneyOr(pr.overall_min, pr.overall_max)
        p_max == MoneyOr(pr.overall_max, pr.overall_min)
    IN  IF has_pricing THEN <<pp, pp>>
        ELSE IF ~(Truthy(p_min) \/ Truthy(p_max)) THEN <<0, 0>>
        ELSE IF ~CanConvert(p_min, base, rt) THEN <<0, 0>>
        ELSE IF ~CanConvert(p_max, base, rt)
             THEN <<Converted(p_min, base) * entry.quantity, 0>>
        ELSE <<Converted(p_min, base) * entry.quantity,
               Converted(p_max, base) * entry.quantity>>

\* perform_stocktake called on its own (commit defaults to True).
PerformStocktakeCall ==
    /\ pc = "idle"
    /\ \E target \in Parts, user \in {0, 1}, commit \in BOOLEAN, ee \in BOOLEAN :
          BeginStocktake("direct", target, user, commit, ee)
    /\ UNCHANGED <<db, base_setting, saved, reports,
                   notifications, kwargs, r, ret>>

\* One iteration of the loop of lines 65-93.
StocktakeEntry ==
    /\ pc = "stocktake"
    /\ s.i <= Len(s.stock_entries)
    /\ LET entry == items[s.stock_entries[s.i]]
           c == EntryCost(entry, pricing[s.target], s.base_currency, rates)
       IN s' = [s EXCEPT
                   !.i = @ + 1,
                   !.total_quantity = @ + entry.quantity,
                   !.total_cost_min.amount = @ + c[1],
                   !.total_cost_max.amount = @ + c[2]]
    /\ UNCHANGED <<db, pricing, base_setting, refreshed, saved,
                   reports, notifications, pc, kwargs, r, ret>>

\* Lines 95-109: the PartStocktake instance, saved when commit is set.
StocktakeReturn ==
    /\ pc = "stocktake"
    /\ s.i > Len(s.stock_entries)
    /\ LET instance == [part |-> s.target,
                        item_count |-> Len(s.stock_entries),
                        quantity |-> s.total_quantity,
                        cost_min |-> s.total_cost_min,
                        cost_max |-> s.total_cost_max,
                        user |-> s.user]
       IN /\ s' = [s EXCEPT !.instance = instance]
          /\ saved' = IF s.commit THEN Append(saved, instance) ELSE saved
    /\ pc' = IF s.caller = "report" THEN "returned" ELSE "done"
    /\ ret' = IF s.caller = "report" THEN ret ELSE "PartStocktake"
    /\ UNCHANGED <<db, pricing, base_setting, refreshed,
                   reports, notifications, kwargs, r>>

\* ------------------------------------------------ generate_stocktake_report

NoKwargs ==
    [user |-> 0, part |-> 0, category |-> 0, location |-> 0,
     exclude_external |-> "absent", generate_report |-> TRUE, update_parts |-> TRUE]

NoReport ==
    [started |-> FALSE, exclude_external |-> FALSE, user |-> 0,
     generate_report |-> TRUE, update_parts |-> TRUE,
     parts |-> <<>>, n_parts |-> 0, idx |-> 1, base_currency |-> "none",
     dataset |-> <<>>, stocktake_instances |-> <<>>, total_parts |-> 0]

\* The keyword arguments a caller passes.  exclude_external is "absent" when
\* the caller passes none; 0 is None.
KwargsChoices ==
    [user : {0, 1}, part : {0, 1}, category : {0, 1}, location : {0, 1},
     exclude_external : {"absent", "True", "False"},
     generate_report : BOOLEAN, update_parts : BOOLEAN]

\* kwargs.get(key, default) for the boolean option a caller passes as
\* "True" or "False".
KwargsGetBool(kw, key, default) ==
    IF key \in DOMAIN kw /\ kw[key] # "absent" THEN kw[key] = "True" ELSE default

\* Lines 130-134: the key looked up is 'exclude_exernal'.
ResolveExcludeExternal(kw, setting) == KwargsGetBool(kw, "exclude_exernal", setting)

\* Lines 142-147: the part and its variants.
FilterByPart(parts, p) ==
    IF p # 0 THEN {x \in parts : IsPartWithin(x, p)} ELSE parts

\* Lines 149-152: the parts of the category and of its descendants.
FilterByCategory(parts, category) ==
    IF category # 0
    THEN {x \in parts : IsCategoryWithin(PartCategory(x), category)}
    ELSE parts

\* (mutation) the sublocations are left out.
LocationItemsNoDescendants(location, exclude_external) ==
    LET found == {i \in Items : items[i].location = location}
    IN  IF exclude_external THEN ExcludeExternal(found) ELSE found

\* Lines 158-164: the stock items within the location.
LocationItems(location, exclude_external) ==
    LET found == {i \in Items : items[i].location \in LocationDescendants(location)}
    IN  IF exclude_external THEN ExcludeExternal(found) ELSE found

\* Lines 154-171: the parts with a stock item within the location.
FilterByLocation(parts, location, exclude_external) ==
    IF location # 0
    THEN {x \in parts :
            \E i \in LocationItems(location, exclude_external) : items[i].part = x}
    ELSE parts

\* Lines 136-171: the parts the report covers.
FilteredParts(kw, exclude_external) ==
    FilterByLocation(
        FilterByCategory(FilterByPart(Parts, kw.part), kw.category),
        kw.location, exclude_external)

\* (mutation) the early exit is never taken.
NoPartsSelectedNever(n_parts) == n_parts < 0

\* Lines 174-176: the filters removed all parts.
NoPartsSelected(n_parts) == n_parts = 0

\* Lines 130-208: the options, the filters, the early exit, the dataset header.
GenerateStocktakeReport ==
    /\ pc = "idle"
    /\ \E kw \in KwargsChoices :
          LET exclude_external == ResolveExcludeExternal(kw, exclude_setting)
              parts == FilteredParts(kw, exclude_external)
              locals == [NoReport EXCEPT
                            !.started = TRUE,
                            !.exclude_external = exclude_external,
                            !.user = kw.user,
                            !.generate_report = kw.generate_report,
                            !.update_parts = kw.update_parts,
                            !.parts = SortedSeq(parts),
                            !.n_parts = Cardinality(parts)]
          IN /\ kwargs' = kw
             /\ IF NoPartsSelected(Cardinality(parts))
                THEN /\ r' = locals
                     /\ pc' = "done"
                     /\ ret' = "None"
                ELSE /\ r' = [locals EXCEPT !.base_currency = base_setting]
                     /\ pc' = "loop"
                     /\ UNCHANGED ret
    /\ UNCHANGED <<db, pricing, base_setting, refreshed, saved,
                   reports, notifications, s>>

\* Lines 211-214: the next part of the loop is handed to perform_stocktake.
ReportNextPart ==
    /\ pc = "loop"
    /\ r.idx <= Len(r.parts)
    /\ BeginStocktake("report", r.parts[r.idx], r.user, FALSE, r.exclude_external)
    /\ UNCHANGED <<db, base_setting, saved, reports,
                   notifications, kwargs, r, ret>>

\* One row of the dataset (lines 225-235).
DatasetRow(stocktake) ==
    [pk |-> stocktake.part,
     category |-> PartCategory(stocktake.part),
     item_count |-> stocktake.item_count,
     quantity |-> stocktake.quantity,
     cost_min |-> stocktake.cost_min.amount,
     cost_max |-> stocktake.cost_max.amount]

\* (mutation) no stocktake is skipped.
SkipStocktakeNever(stocktake) == stocktake.quantity < 0

\* Lines 216-218: rows with zero total quantity are skipped.
SkipStocktake(stocktake) == stocktake.quantity = 0

\* Lines 216-235: a stocktake of zero quantity is skipped, any other is kept
\* and gets a row.
ReportRow ==
    /\ pc = "returned"
    /\ LET stocktake == s.instance
       IN IF SkipStocktake(stocktake)
          THEN r' = [r EXCEPT !.idx = @ + 1]
          ELSE r' = [r EXCEPT
                        !.idx = @ + 1,
                        !.total_parts = @ + 1,
                        !.stocktake_instances = Append(@, stocktake),
                        !.dataset = Append(@, DatasetRow(stocktake))]
    /\ pc' = "loop"
    /\ UNCHANGED <<db, pricing, base_setting, refreshed, saved,
                   reports, notifications, kwargs, s, ret>>

\* (mutation) the report created is returned.
ReportReturnValueCreated(created) ==
    IF created THEN "PartStocktakeReport" ELSE "None"

\* Line 276: the function ends without a return statement, whether or not it
\* created a report.
ReportReturnValue(created) == "None"

\* Lines 237-276: the report, the notification and the bulk insert.  The
\* function ends without a return statement.
ReportFinish ==
    /\ pc = "loop"
    /\ r.idx > Len(r.parts)
    /\ LET report_instance == [report |-> [currency |-> r.base_currency,
                                           rows |-> r.dataset],
                               part_count |-> r.total_parts,
                               user |-> r.user]
       IN /\ reports' = IF r.generate_report
                        THEN Append(reports, report_instance) ELSE reports
          /\ notifications' = IF r.generate_report /\ r.user # 0
                              THEN Append(notifications,
                                          [target |-> r.user, report |-> report_instance])
                              ELSE notifications
    /\ saved' = IF r.update_parts THEN saved \o r.stocktake_instances ELSE saved
    /\ pc' = "done"
    /\ ret' = ReportReturnValue(r.generate_report)
    /\ UNCHANGED <<db, pricing, base_setting, refreshed, kwargs, r, s>>

\* Another actor changes the base-currency setting.
SetBaseCurrency ==
    /\ pc # "done"
    /\ \E c \in BaseCurrencies \ {base_setting} : base_setting' = c
    /\ UNCHANGED <<db, pricing, refreshed, saved, reports, notifications, pc,
                   kwargs, r, s, ret>>

\* ----------------------------------------------------------- specifications

\* The part of stock item i: part 1 or, where there is one, part i.
ItemParts(i) == {1, i} \cap Parts

\* The StockItem tables a report is run over: the entries differ in part,
\* location and stock status.
ReportItemTables ==
    {t \in [Items -> [part : Parts, location : {0} \cup Locations,
                      in_stock : BOOLEAN, quantity : {1},
                      purchase_price : {NoMoney}]] :
        \A i \in Items : t[i].part \in ItemParts(i)}

\* The StockItem tables whose entries differ in part, location, stock status
\* and quantity.
EntryItemTables ==
    [Items -> [part : {1, 2}, location : {0} \cup Locations, in_stock : BOOLEAN,
               quantity : 1..MaxQty, purchase_price : {NoMoney}]]

\* The StockItem tables whose entries differ in quantity and purchase price.
PricedItemTables ==
    [Items -> [part : {1}, location : {1}, in_stock : {TRUE},
               quantity : 1..MaxQty,
               purchase_price : {NoMoney, Money(0, "USD"), Money(1, "GBP")}]]

\* Every part with the same pricing row.
UniformPricing(rows) == {[p \in Parts |-> row] : row \in rows}

InitRun ==
    /\ refreshed = {}
    /\ saved = <<>>
    /\ reports = <<>>
    /\ notifications = <<>>
    /\ pc = "idle"
    /\ kwargs = NoKwargs
    /\ r = NoReport
    /\ s = NoFrame
    /\ ret = "unset"

Init ==
    /\ items \in ReportItemTables
    /\ pricing \in UniformPricing({InvalidPricing})
    /\ rates = Currencies
    /\ base_setting = "USD"
    /\ exclude_setting \in BOOLEAN
    /\ InitRun

InitEntries ==
    /\ items \in EntryItemTables
    /\ pricing \in UniformPricing({ComputedPricing(1)})
    /\ rates = Currencies
    /\ base_setting = "USD"
    /\ exclude_setting = FALSE
    /\ InitRun

InitStocktake ==
    /\ items \in PricedItemTables
    /\ pricing \in UniformPricing({InvalidPricing} \cup ValidPricings)
    /\ rates \in {{}, BaseCurrencies, Currencies}
    /\ base_setting \in BaseCurrencies
    /\ exclude_setting = FALSE
    /\ InitRun

Next ==
    \/ PerformStocktakeCall
    \/ StocktakeEntry
    \/ StocktakeReturn
    \/ GenerateStocktakeReport
    \/ ReportNextPart
    \/ ReportRow
    \/ ReportFinish

NextStocktake ==
    \/ PerformStocktakeCall
    \/ StocktakeEntry
    \/ StocktakeReturn

NextSettings ==
    \/ Next
    \/ SetBaseCurrency

\* A report or a stocktake, the settings held fixed.
Spec == Init /\ [][Next]_vars

\* A report or a stocktake while another actor changes the base currency.
SpecSettings == Init /\ [][NextSettings]_vars

\* A stocktake of one part, over varied sets of stock entries.
SpecEntries == InitEntries /\ [][NextStocktake]_vars

\* A stocktake of one part, over varied prices, pricing rows and exchange rates.
SpecStocktake == InitStocktake /\ [][NextStocktake]_vars

\* ------------------------------------------------------------------ claims

SeqRange(q) == {q[k] : k \in 1..Len(q)}

\* The in-stock entries of part p itself, without those at an external
\* location when exclude_external is set.
IncludedEntries(p, exclude_external) ==
    {i \in Items :
        /\ items[i].part = p
        /\ items[i].in_stock
        /\ exclude_external =>
              (items[i].location = 0 \/ ~LocationExternal(items[i].location))}

RECURSIVE SumQuantity(_)
SumQuantity(S) ==
    IF S = {} THEN 0
    ELSE LET i == CHOOSE x \in S : TRUE
         IN items[i].quantity + SumQuantity(S \ {i})

\* perform_stocktake has returned a PartStocktake.
Returned == s.caller # "none" /\ pc \in {"returned", "done"}

\* The entry the loop of perform_stocktake handles next.
AtEntry == pc = "stocktake" /\ s.i <= Len(s.stock_entries)

CurrentEntry == items[s.stock_entries[s.i]]

\* The option a caller of generate_stocktake_report passed.
RequestedExclude == kwargs.exclude_external = "True"

\* C1: a report run given exclude_external by its caller counts, in every
\* stocktake it produces, exactly the entries that option selects, whatever
\* the setting STOCKTAKE_EXCLUDE_EXTERNAL is.
C1_CallerOptionHonoured ==
    (pc = "returned" /\ kwargs.exclude_external # "absent") =>
        /\ SeqRange(s.stock_entries) = IncludedEntries(s.target, RequestedExclude)
        /\ s.instance.item_count =
              Cardinality(IncludedEntries(s.target, RequestedExclude))

\* C2: every PartStocktake produced has cost_min <= cost_max.
C2_CostMinLeCostMax ==
    Returned => s.instance.cost_min.amount <= s.instance.cost_max.amount

\* C3: the PartStocktake returned has the quantity and the item count of
\* exactly the included entries (of the part itself, in stock, not external
\* when exclude_external is set); with no such entry it is all zero.
C3_QuantityOfIncludedEntries ==
    Returned =>
        LET inc == IncludedEntries(s.target, s.exclude_external)
        IN /\ s.instance.quantity = SumQuantity(inc)
           /\ s.instance.item_count = Cardinality(inc)
           /\ inc = {} =>
                 /\ s.instance.quantity = 0
                 /\ s.instance.item_count = 0
                 /\ s.instance.cost_min.amount = 0
                 /\ s.instance.cost_max.amount = 0

\* A stocktake excluding external locations returned, with an external entry
\* and a variant's entry left out and one entry counted.
C3_Witness ==
    /\ Returned
    /\ s.exclude_external
    /\ s.instance.item_count = 1
    /\ \E i \in Items :
          /\ items[i].in_stock
          /\ \/ items[i].part = s.target /\ LocationExternal(items[i].location)
             \/ PartParent(items[i].part) = s.target

\* C4: a part whose stocktake has quantity 0 gets no dataset row and no
\* place in the batch of the bulk insert: rows, batch and part_count all
\* number the matching parts of non-zero quantity.
C4_ZeroQuantitySkipped ==
    /\ \A k \in 1..Len(r.dataset) : r.dataset[k].quantity # 0
    /\ \A k \in 1..Len(r.stocktake_instances) : r.stocktake_instances[k].quantity # 0
    /\ (pc = "done" /\ r.started /\ r.n_parts > 0) =>
          LET n == Cardinality(
                      {p \in SeqRange(r.parts) :
                          SumQuantity(IncludedEntries(p, r.exclude_external)) # 0})
          IN /\ Len(r.dataset) = n
             /\ Len(r.stocktake_instances) = n
             /\ r.total_parts = n
             /\ r.generate_report =>
                   /\ reports[1].part_count = n
                   /\ Len(reports[1].report.rows) = n
             /\ r.update_parts => Len(saved) = n

\* A finished report that skipped a part and kept another.
C4_Witness ==
    /\ pc = "done"
    /\ r.started
    /\ r.generate_report
    /\ r.update_parts
    /\ r.total_parts >= 1
    /\ r.total_parts < r.n_parts

\* C5: with no part left by the filters the report ends at once: it returns
\* None, creates no report, saves no stocktake, sends no notification and
\* takes stock of no part (so refreshes no pricing).
C5_EmptyPartSetNoEffect ==
    (r.started /\ FilteredParts(kwargs, r.exclude_external) = {}) =>
        /\ pc = "done"
        /\ ret = "None"
        /\ reports = <<>>
        /\ saved = <<>>
        /\ notifications = <<>>
        /\ s = NoFrame
        /\ refreshed = {}

\* A report asked to store its results, for a requester, found no part.
C5_Witness ==
    /\ pc = "done"
    /\ r.started
    /\ r.n_parts = 0
    /\ kwargs.generate_report
    /\ kwargs.update_parts
    /\ kwargs.user # 0

\* C6 as stated: a run that creates a report returns that report.
C6_ReturnsCreatedReport ==
    (pc = "done" /\ r.started /\ Len(reports) > 0) => ret = "PartStocktakeReport"

\* C6 as amended: generate_stocktake_report returns None on every run; a run
\* creates one report exactly when the filters leave a part and
\* generate_report is set, and that report is stored, not returned.
C6_ReturnsNone ==
    (pc = "done" /\ r.started) =>
        /\ ret = "None"
        /\ Len(reports) = (IF r.n_parts > 0 /\ kwargs.generate_report THEN 1 ELSE 0)

\* A run that created a report has ended.
C6_Witness ==
    /\ pc = "done"
    /\ r.started
    /\ Len(reports) = 1

\* The parts the part and category filters leave.
PartsBeforeLocation == FilterByCategory(FilterByPart(Parts, kwargs.part), kwargs.category)

\* Item i lies in the subtree of the location filter (and not at an external
\* location when the run excludes those).
InLocationFilter(i) ==
    /\ IsLocationWithin(items[i].location, kwargs.location)
    /\ r.exclude_external => ~LocationExternal(items[i].location)

\* C7 as stated: with a location filter the parts processed are those with an
\* in-stock item in the location's subtree.
C7_PartsWithInStockItems ==
    (r.started /\ kwargs.location # 0) =>
        SeqRange(r.parts) =
            {p \in PartsBeforeLocation :
                \E i \in Items :
                    items[i].part = p /\ items[i].in_stock /\ InLocationFilter(i)}

\* C7 as amended: with a location filter the parts processed are those with
\* any stock item, in stock or not, in the location's subtree.
C7_PartsWithItems ==
    (r.started /\ kwargs.location # 0) =>
        SeqRange(r.parts) =
            {p \in PartsBeforeLocation :
                \E i \in Items : items[i].part = p /\ InLocationFilter(i)}

\* A location-filtered run processes a part none of whose items in the
\* subtree is in stock, next to a part found through a sublocation.
C7_Witness ==
    /\ r.started
    /\ kwargs.location # 0
    /\ \E p \in SeqRange(r.parts) :
          \A i \in Items :
              (items[i].part = p /\ InLocationFilter(i)) => ~items[i].in_stock
    /\ \E i \in Items :
          items[i].location # kwargs.location /\ InLocationFilter(i)

\* The entry has no purchase price, or its purchase price does not convert.
ReachesFallback(entry) ==
    \/ entry.purchase_price = NoMoney
    \/ ~CanConvert(entry.purchase_price, s.base_currency, rates)

\* The pricing row has no usable bound, or one of the two bounds the fallback
\* uses does not convert.
FallbackFails(pr) ==
    LET p_min == MoneyOr(pr.overall_min, pr.overall_max)
        p_max == MoneyOr(pr.overall_max, pr.overall_min)
    IN \/ ~Truthy(p_min) /\ ~Truthy(p_max)
       \/ ~CanConvert(p_min, s.base_currency, rates)
       \/ ~CanConvert(p_max, s.base_currency, rates)

\* C8: an entry that reaches the fallback and whose fallback fails adds
\* nothing to total_cost_min and nothing to total_cost_max.
C8_FailedFallbackAddsNothing ==
    [][(AtEntry /\ ReachesFallback(CurrentEntry) /\ FallbackFails(pricing[s.target])) =>
          /\ s'.total_cost_min = s.total_cost_min
          /\ s'.total_cost_max = s.total_cost_max]_vars

\* C9: an entry with a purchase price of its own (zero included) that
\* converts adds price x quantity to both totals.
C9_PurchasePriceUsed ==
    [][(/\ AtEntry
        /\ CurrentEntry.purchase_price # NoMoney
        /\ CanConvert(CurrentEntry.purchase_price, s.base_currency, rates)
        /\ s'.i = s.i + 1) =>
          LET pp == Converted(CurrentEntry.purchase_price, s.base_currency)
                        * CurrentEntry.quantity
          IN /\ s'.total_cost_min.amount = s.total_cost_min.amount + pp
             /\ s'.total_cost_max.amount = s.total_cost_max.amount + pp]_vars

\* C10: the currency of every stocktake of a report run is the currency the
\* run read at its start and names in the dataset header.
C10_OneBaseCurrencyPerRun ==
    (r.started /\ r.n_parts > 0) =>
        /\ \A k \in 1..Len(r.stocktake_instances) :
              /\ r.stocktake_instances[k].cost_min.currency = r.base_currency
              /\ r.stocktake_instances[k].cost_max.currency = r.base_currency
        /\ (pc = "returned") =>
              /\ s.instance.cost_min.currency = r.base_currency
              /\ s.instance.cost_max.currency = r.base_currency
        /\ \A k \in 1..Len(reports) : reports[k].report.currency = r.base_currency

====
